---- MODULE Spec2Model ----
(***************************************************************************)
(* Model of backend/server.py: the requirements-intake / plan-generation   *)
(* API over two document collections and an external text model.           *)
(*                                                                         *)
(* Documents and JSON objects are functions from field names to values.    *)
(* Texts (the model's reply) are sequences of one-character strings; the   *)
(* characters "A".."D" each stand for the member list of a JSON object     *)
(* (see Members), "BT" for a backtick, every other one for itself.         *)
(*                                                                         *)
(* A request handler is one action, except generate_plan, which is         *)
(* suspended in chat.send_message while other requests run: the part up to *)
(* the call is one action, the part after the call returns or raises       *)
(* another. uuid.uuid4() is a counter (identifiers never repeat), and so   *)
(* is datetime.utcnow(). Field values are opaque: the type coercion of the *)
(* pydantic models is not modelled, their required and optional fields     *)
(* are. The prompt text is not modelled: the reply is any text of          *)
(* MainReplies whatever the prompt.                                        *)
(***************************************************************************)
EXTENDS Integers, Sequences, FiniteSets, TLC

VARIABLES
    project_requirements,  \* db.project_requirements: sequence of documents, insertion order
    project_plans,         \* db.project_plans: sequence of documents, insertion order
    GEMINI_API_KEY,        \* os.environ.get('GEMINI_API_KEY'): "" when not configured
    uuid_next,             \* source of uuid.uuid4(): the next identifier never issued before
    clock,                 \* source of datetime.utcnow()
    inflight,              \* generate_plan requests suspended in chat.send_message
    resp,                  \* the response of the request completed last
    submitted,             \* history: identifier returned by a POST -> payload it submitted
    returned_plans,        \* history: identifier of a plan returned by generate_plan -> that plan
    loaded,                \* number of records in each collection when the service started
    llm_reply,             \* text-handling runs: the parts of the reply text under test
    llm_parsed             \* text-handling runs: what generate_project_plan made of it

vars == <<project_requirements, project_plans, GEMINI_API_KEY, uuid_next, clock,
          inflight, resp, submitted, returned_plans, loaded, llm_reply, llm_parsed>>

----------------------------------------------------------------------------
(* Bounds of the model *)

\* requirements records already stored when the service starts (0 or PreLoad)
PreLoad == 100
\* records a run may add: those inserted plus the generation requests in flight
MaxRecords == 2
\* whitespace characters put around a reply
MaxPad == 1

----------------------------------------------------------------------------
(* Values *)

NoneVal == "None"

\* d without the field k (del d[k])
DelField(d, k) == [f \in (DOMAIN d) \ {k} |-> d[f]]

\* d with the field k set to v (d[k] = v)
SetField(d, k, v) == [f \in (DOMAIN d) \cup {k} |-> IF f = k THEN v ELSE d[f]]

----------------------------------------------------------------------------
(* Pydantic models: the required fields and the defaults of the others *)

ProjectRequirementsCreate ==
    [required |-> {"title", "description", "business_context", "success_criteria",
                   "constraints", "stakeholders", "timeline_preference"},
     defaults |-> [budget_range |-> NoneVal]]

ProjectObjective ==
    [required |-> {"objective", "specific", "measurable", "achievable", "relevant",
                   "time_bound"},
     defaults |-> <<>>]

WBSTask ==
    [required |-> {"id", "name", "description", "level", "estimated_hours",
                   "assigned_role", "priority"},
     defaults |-> [parent_id |-> NoneVal, dependencies |-> <<>>]]

ResourceEstimate ==
    [required |-> {"role", "hours_required", "skill_level"},
     defaults |-> [cost_estimate |-> NoneVal]]

RiskItem ==
    [required |-> {"risk", "probability", "impact", "mitigation_strategy", "owner"},
     defaults |-> <<>>]

\* Model(**data) raises a validation error unless every required field is given
Validates(model, data) == model.required \subseteq DOMAIN data

\* Model(**data): the declared fields only, defaults for those not given
Construct(model, data) ==
    [f \in model.required \cup DOMAIN model.defaults |->
        IF f \in DOMAIN data THEN data[f] ELSE model.defaults[f]]

\* variant: the identifier is generated anew whenever the model is constructed
ProjectRequirements_FreshId(data, id, now) ==
    LET base == Construct(ProjectRequirementsCreate, data)
    IN  [f \in (DOMAIN base) \cup {"id", "created_at"} |->
            IF f = "id" THEN id
            ELSE IF f \in DOMAIN data THEN data[f]
            ELSE IF f = "created_at" THEN now
            ELSE base[f]]

\* ProjectRequirements(**data): id and created_at default to a fresh uuid and now
ProjectRequirements(data, id, now) ==
    LET base == Construct(ProjectRequirementsCreate, data)
    IN  [f \in (DOMAIN base) \cup {"id", "created_at"} |->
            IF f \in DOMAIN data THEN data[f]
            ELSE IF f = "id" THEN id
            ELSE IF f = "created_at" THEN now
            ELSE base[f]]

----------------------------------------------------------------------------
(* Texts: str.strip, str.startswith, slicing *)

\* the characters str.strip() removes; json.loads skips the same ones around a value
IsSpace(c) == c \in {" ", "\n"}

\* the backtick character (SANY does not lex a backtick inside a string)
BT == "BT"

Fence == <<BT, BT, BT>>

FenceJson == <<BT, BT, BT, "j", "s", "o", "n">>

RECURSIVE lstrip(_)
lstrip(s) == IF s # <<>> /\ IsSpace(Head(s)) THEN lstrip(Tail(s)) ELSE s

RECURSIVE rstrip(_)
rstrip(s) ==
    IF s # <<>> /\ IsSpace(s[Len(s)]) THEN rstrip(SubSeq(s, 1, Len(s) - 1)) ELSE s

\* s.strip()
strip(s) == rstrip(lstrip(s))

\* s.startswith(p)
startswith(s, p) == Len(s) >= Len(p) /\ SubSeq(s, 1, Len(p)) = p

\* s.endswith(p)
endswith(s, p) == Len(s) >= Len(p) /\ SubSeq(s, Len(s) - Len(p) + 1, Len(s)) = p

\* s[a:-b] for a >= 0 and b > 0: empty when fewer than a + b characters
Slice(s, a, b) == IF Len(s) - b <= a THEN <<>> ELSE SubSeq(s, a + 1, Len(s) - b)

\* variant: only the json-tagged fence is recognised
ResponseText_JsonFenceOnly(response) ==
    LET response_text == strip(response)
    IN  IF startswith(response_text, FenceJson) THEN Slice(response_text, 7, 3)
        ELSE response_text

\* response_text of generate_project_plan: the text handed to json.loads
ResponseText(response) ==
    LET response_text == strip(response)
    IN  IF startswith(response_text, FenceJson) THEN Slice(response_text, 7, 3)
        ELSE IF startswith(response_text, Fence) THEN Slice(response_text, 3, 3)
        ELSE response_text

----------------------------------------------------------------------------
(* JSON values the model can reply with *)

OkObjective ==
    [objective |-> "o", specific |-> "s", measurable |-> "m", achievable |-> "a",
     relevant |-> "r", time_bound |-> "t"]

OkTask ==
    [id |-> "task_1", name |-> "n", description |-> "d", level |-> "1",
     parent_id |-> NoneVal, estimated_hours |-> "40", dependencies |-> <<>>,
     assigned_role |-> "role", priority |-> "High"]

OkResource ==
    [role |-> "PM", hours_required |-> "200", skill_level |-> "Senior",
     cost_estimate |-> "25000"]

OkRisk ==
    [risk |-> "r", probability |-> "Low", impact |-> "High",
     mitigation_strategy |-> "m", owner |-> "o"]

RequiredKeys ==
    {"objectives", "wbs_tasks", "timeline_weeks", "resource_estimates",
     "risk_analysis", "success_metrics", "next_steps", "confidence_score"}

\* the object of the prompt example
PlanA ==
    [objectives |-> <<OkObjective>>, wbs_tasks |-> <<OkTask>>, timeline_weeks |-> "12",
     resource_estimates |-> <<OkResource>>, risk_analysis |-> <<OkRisk>>,
     success_metrics |-> <<"Metric 1", "Metric 2">>, next_steps |-> <<"Step 1", "Step 2">>,
     confidence_score |-> "0.85"]

\* other list lengths; items with an extra field and without their optional fields;
\* an extra top-level key
PlanB ==
    [objectives |-> <<SetField(OkObjective, "note", "x"), OkObjective>>,
     wbs_tasks |-> <<DelField(DelField(OkTask, "parent_id"), "dependencies"), OkTask,
                     OkTask>>,
     timeline_weeks |-> "3", resource_estimates |-> <<DelField(OkResource, "cost_estimate")>>,
     risk_analysis |-> <<>>, success_metrics |-> <<>>, next_steps |-> <<"Step 1">>,
     confidence_score |-> "1.5", summary |-> "x"]

\* a required top-level key is missing
PlanC == DelField(PlanA, "confidence_score")

\* a nested item lacks a required field
PlanD == SetField(PlanA, "risk_analysis", <<OkRisk, DelField(OkRisk, "owner")>>)

\* what each member-list character stands for
Members == [A |-> PlanA, B |-> PlanB, C |-> PlanC, D |-> PlanD]

JSONDecodeError == [ok |-> FALSE, kind |-> "JSONDecodeError", value |-> <<>>]

\* json.loads(text): whitespace, one value, whitespace. The values of the model are
\* the objects {}, {A} .. {D} and the array []
json_loads(text) ==
    LET t == strip(text)
    IN  IF t = <<"{", "}">> THEN [ok |-> TRUE, kind |-> "object", value |-> <<>>]
        ELSE IF t = <<"[", "]">> THEN [ok |-> TRUE, kind |-> "array", value |-> <<>>]
        ELSE IF Len(t) = 3 /\ t[1] = "{" /\ t[3] = "}" /\ t[2] \in DOMAIN Members
             THEN [ok |-> TRUE, kind |-> "object", value |-> Members[t[2]]]
        ELSE JSONDecodeError

\* variant: a reply that does not parse is replaced by a default plan
generate_project_plan_fallback(response) ==
    LET data == json_loads(ResponseText(response))
    IN  IF data.ok THEN [raised |-> FALSE, plan_data |-> data]
        ELSE [raised |-> FALSE,
              plan_data |-> [ok |-> TRUE, kind |-> "object", value |-> PlanA]]

\* generate_project_plan from the reply of chat.send_message on: plan_data, or
\* HTTPException(500) on a json.JSONDecodeError
generate_project_plan(response) ==
    LET data == json_loads(ResponseText(response))
    IN  IF data.ok THEN [raised |-> FALSE, plan_data |-> data]
        ELSE [raised |-> TRUE, plan_data |-> data]

----------------------------------------------------------------------------
(* The document store (motor collections) and the response encoder *)

\* variant: the filter is dropped, the first document of the collection is returned
find_one_first(collection, id) ==
    IF collection = <<>> THEN <<>> ELSE collection[1]

\* variant: the latest document is returned when none has the id
find_one_or_latest(collection, id) ==
    LET hits == {i \in DOMAIN collection : collection[i]["id"] = id}
    IN  IF hits # {} THEN collection[CHOOSE i \in hits : \A j \in hits : i <= j]
        ELSE IF collection = <<>> THEN <<>>
        ELSE collection[Len(collection)]

\* collection.find_one({"id": id}): the first document with that id, None (here the
\* empty function, which is falsy like None) when there is none
find_one(collection, id) ==
    LET hits == {i \in DOMAIN collection : collection[i]["id"] = id}
    IN  IF hits = {} THEN <<>>
        ELSE collection[CHOOSE i \in hits : \A j \in hits : i <= j]

\* `not doc`
Falsy(doc) == DOMAIN doc = {}

\* variant: the latest document is replaced instead of a new one being added
insert_one_replacing(collection, doc) ==
    IF collection = <<>> THEN <<SetField(doc, "_id", 1)>>
    ELSE [collection EXCEPT ![Len(collection)] = SetField(doc, "_id", Len(collection))]

\* collection.insert_one(doc): the store adds its own _id (an ObjectId) to the document
insert_one(collection, doc) ==
    Append(collection, SetField(doc, "_id", Len(collection) + 1))

\* variant: the length is ignored
to_list_all(collection, length) == collection

\* collection.find().to_list(length)
to_list(collection, length) ==
    SubSeq(collection, 1, IF Len(collection) < length THEN Len(collection) ELSE length)

\* whether the response encoder can serialise a document: an ObjectId is not
\* JSON-serialisable (the comment of get_all_project_requirements)
DocEncodable(doc) == "_id" \notin DOMAIN doc

ListEncodable(docs) == \A i \in DOMAIN docs : DocEncodable(docs[i])

\* a response, with what the request did on the way: the number of calls it issued
\* to the external model, the outcome of the call ("none", "raise" or "reply") and the
\* reply text
GenResponse(op, arg, status, body, calls, outcome, reply) ==
    [op |-> op, arg |-> arg, status |-> status, body |-> body, calls |-> calls,
     outcome |-> outcome, reply |-> reply]

Response(op, arg, status, body) == GenResponse(op, arg, status, body, 0, "none", <<>>)

\* raise HTTPException(status_code, detail)
HTTPException(op, arg, status_code, detail) == Response(op, arg, status_code, detail)

\* a handler's return value on its way out: 200 when it serialises, else the
\* framework's 500
Respond(op, arg, value, encodable) ==
    IF encodable THEN Response(op, arg, 200, value)
    ELSE Response(op, arg, 500, "Internal Server Error")

----------------------------------------------------------------------------
(* Plan construction: the try block of generate_plan after the model call *)

ItemsValidate(model, items) == \A i \in DOMAIN items : Validates(model, items[i])

ConstructAll(model, items) == [i \in DOMAIN items |-> Construct(model, items[i])]

\* variant: items with undeclared fields are rejected
PlanBuilds_ExtraForbidden(data) ==
    /\ data.kind = "object"
    /\ RequiredKeys \subseteq DOMAIN data.value
    /\ \A i \in DOMAIN data.value["objectives"] :
          DOMAIN data.value["objectives"][i] = ProjectObjective.required
    /\ ItemsValidate(WBSTask, data.value["wbs_tasks"])
    /\ ItemsValidate(ResourceEstimate, data.value["resource_estimates"])
    /\ ItemsValidate(RiskItem, data.value["risk_analysis"])

\* whether ProjectPlan(...) is built without an exception: plan_data[...] raises on a
\* non-object or a missing key, the item constructors on a missing required field
PlanBuilds(data) ==
    /\ data.kind = "object"
    /\ RequiredKeys \subseteq DOMAIN data.value
    /\ ItemsValidate(ProjectObjective, data.value["objectives"])
    /\ ItemsValidate(WBSTask, data.value["wbs_tasks"])
    /\ ItemsValidate(ResourceEstimate, data.value["resource_estimates"])
    /\ ItemsValidate(RiskItem, data.value["risk_analysis"])

\* ProjectPlan(project_requirements_id=..., ...) with its generated id and created_at
ProjectPlan(requirements_id, d, id, now) ==
    [id |-> id,
     project_requirements_id |-> requirements_id,
     objectives |-> ConstructAll(ProjectObjective, d["objectives"]),
     wbs_tasks |-> ConstructAll(WBSTask, d["wbs_tasks"]),
     timeline_weeks |-> d["timeline_weeks"],
     resource_estimates |-> ConstructAll(ResourceEstimate, d["resource_estimates"]),
     risk_analysis |-> ConstructAll(RiskItem, d["risk_analysis"]),
     success_metrics |-> d["success_metrics"],
     next_steps |-> d["next_steps"],
     confidence_score |-> d["confidence_score"],
     created_at |-> now]

----------------------------------------------------------------------------
(* Inputs *)

\* a complete payload
InputA ==
    [title |-> "T1", description |-> "d", business_context |-> "b",
     success_criteria |-> "s", constraints |-> "c", stakeholders |-> "k",
     timeline_preference |-> "p", budget_range |-> "$150K"]

\* a payload without the optional budget_range
InputB == SetField(DelField(InputA, "budget_range"), "title", "T2")

\* a payload without a required field
InputC == DelField(InputA, "title")

Inputs == {InputA, InputB, InputC}

Obj(c) == <<"{", c, "}">>

\* the replies of the model in the API runs
MainReplies ==
    {Obj("A"),
     FenceJson \o <<"\n">> \o Obj("B") \o <<"\n">> \o Fence,
     Fence \o Obj("A") \o Fence \o <<"\n">>,
     FenceJson \o <<"\n">> \o Obj("A"),
     <<"x", "x", "x">>,
     Obj("C"), Obj("D"), <<"{", "}">>, <<"[", "]">>}

\* identifiers a client asks for: one never issued, the oldest preloaded one, and
\* those issued during the run
AskedIds == {0, 1} \cup ((loaded + 1) .. (uuid_next - 1))

NoResponse == Response("none", 0, 0, <<>>)

\* the replies of the text-handling runs, part by part: whitespace, a leading fence,
\* a line break, the body, a line break, a trailing fence, whitespace
Pads == UNION {[1 .. k -> {" ", "\n"}] : k \in 0 .. MaxPad}

Gaps == {<<>>, <<"\n">>}

Leads == {<<>>, Fence, FenceJson}

Trails == {<<>>, Fence}

Bodies ==
    {Obj("A"), Obj("B"), Obj("C"), <<"{", "}">>, <<"[", "]">>, <<"{", "A">>,
     <<"x", "x", "x", "x">>, <<"j", "s", "o", "n">>}

ReplyParts ==
    [pre : Pads, lead : Leads, gap1 : Gaps, body : Bodies, gap2 : Gaps, trail : Trails,
     post : Pads]

Text(parts) ==
    parts.pre \o parts.lead \o parts.gap1 \o parts.body \o parts.gap2 \o parts.trail
    \o parts.post

NoReply ==
    [pre |-> <<>>, lead |-> <<>>, gap1 |-> <<>>, body |-> <<>>, gap2 |-> <<>>,
     trail |-> <<>>, post |-> <<>>]

NotParsed == [done |-> FALSE, response_text |-> <<>>, plan_data |-> JSONDecodeError]

----------------------------------------------------------------------------
(* The API runs *)

PreloadedRequirements(i) ==
    SetField(ProjectRequirements(Construct(ProjectRequirementsCreate, InputA), i, i),
             "_id", i)

\* records inserted since the start, plus those the requests in flight may insert
Claimed == (Len(project_requirements) - loaded) + Len(project_plans) + Len(inflight)

\* the service starts on an empty database, or on one where earlier runs stored
\* PreLoad requirements records
Init ==
    /\ \/ loaded = 0 /\ GEMINI_API_KEY \in {"", "key"}
       \/ loaded = PreLoad /\ GEMINI_API_KEY = "key"
    /\ project_requirements = [i \in 1 .. loaded |-> PreloadedRequirements(i)]
    /\ project_plans = <<>>
    /\ uuid_next = loaded + 1
    /\ clock = loaded + 1
    /\ inflight = <<>>
    /\ resp = NoResponse
    /\ submitted = <<>>
    /\ returned_plans = <<>>
    /\ llm_reply = NoReply
    /\ llm_parsed = NotParsed

Untouched == UNCHANGED <<GEMINI_API_KEY, loaded, llm_reply, llm_parsed>>

\* GET /api/
root ==
    /\ resp' = Response("root", 0, 200, "Planning Agent Ready")
    /\ UNCHANGED <<project_requirements, project_plans, uuid_next, clock, inflight,
                   submitted, returned_plans>>
    /\ Untouched

\* POST /api/project-requirements; a body that fails ProjectRequirementsCreate is
\* answered 422 before the handler runs
create_project_requirements(input) ==
    /\ Claimed < MaxRecords
    /\ IF ~Validates(ProjectRequirementsCreate, input)
       THEN /\ resp' = HTTPException("create_project_requirements", 0, 422, "field required")
            /\ UNCHANGED <<project_requirements, uuid_next, clock, submitted>>
       ELSE LET requirements_dict == Construct(ProjectRequirementsCreate, input)
                requirements_obj == ProjectRequirements(requirements_dict, uuid_next, clock)
            IN  /\ project_requirements' = insert_one(project_requirements, requirements_obj)
                /\ resp' = Respond("create_project_requirements", 0, requirements_obj,
                                   DocEncodable(requirements_obj))
                /\ uuid_next' = uuid_next + 1
                /\ clock' = clock + 1
                /\ submitted' = [i \in (DOMAIN submitted) \cup {requirements_obj["id"]} |->
                                    IF i = requirements_obj["id"] THEN input
                                    ELSE submitted[i]]
    /\ UNCHANGED <<project_plans, inflight, returned_plans>>
    /\ Untouched

\* GET /api/project-requirements/{requirements_id}
get_project_requirements(requirements_id) ==
    /\ LET requirements == find_one(project_requirements, requirements_id)
       IN  IF Falsy(requirements)
           THEN resp' = HTTPException("get_project_requirements", requirements_id, 404,
                                      "Project requirements not found")
           ELSE LET obj == ProjectRequirements(requirements, uuid_next, clock)
                IN  resp' = Respond("get_project_requirements", requirements_id, obj,
                                    DocEncodable(obj))
    /\ UNCHANGED <<project_requirements, project_plans, uuid_next, clock, inflight,
                   submitted, returned_plans>>
    /\ Untouched

\* GET /api/project-plan/{plan_id}: the stored document itself is returned
get_project_plan(plan_id) ==
    /\ LET plan == find_one(project_plans, plan_id)
       IN  IF Falsy(plan)
           THEN resp' = HTTPException("get_project_plan", plan_id, 404,
                                      "Project plan not found")
           ELSE resp' = Respond("get_project_plan", plan_id, plan, DocEncodable(plan))
    /\ UNCHANGED <<project_requirements, project_plans, uuid_next, clock, inflight,
                   submitted, returned_plans>>
    /\ Untouched

\* GET /api/project-plans
get_all_project_plans ==
    /\ LET plans == to_list(project_plans, 100)
       IN  resp' = Respond("get_all_project_plans", 0, plans, ListEncodable(plans))
    /\ UNCHANGED <<project_requirements, project_plans, uuid_next, clock, inflight,
                   submitted, returned_plans>>
    /\ Untouched

\* GET /api/project-requirements
get_all_project_requirements ==
    /\ LET requirements == to_list(project_requirements, 100)
           stripped == [i \in DOMAIN requirements |->
                           IF "_id" \in DOMAIN requirements[i]
                           THEN DelField(requirements[i], "_id")
                           ELSE requirements[i]]
       IN  resp' = Respond("get_all_project_requirements", 0, stripped,
                           ListEncodable(stripped))
    /\ UNCHANGED <<project_requirements, project_plans, uuid_next, clock, inflight,
                   submitted, returned_plans>>
    /\ Untouched
\* get_gemini_chat(): raises HTTPException(500) unless the API key is configured
get_gemini_chat_raises == GEMINI_API_KEY = ""

RemoveAt(s, i) == SubSeq(s, 1, i - 1) \o SubSeq(s, i + 1, Len(s))

\* POST /api/generate-plan/{requirements_id}, up to the await of chat.send_message
generate_plan(requirements_id) ==
    /\ LET requirements_doc == find_one(project_requirements, requirements_id)
       IN  IF Falsy(requirements_doc)
           THEN /\ resp' = HTTPException("generate_plan", requirements_id, 404,
                                         "Project requirements not found")
                /\ UNCHANGED inflight
           ELSE IF get_gemini_chat_raises
           THEN /\ resp' = HTTPException("generate_plan", requirements_id, 500,
                                         "Failed to generate project plan: 500")
                /\ UNCHANGED inflight
           ELSE /\ Claimed < MaxRecords
                /\ inflight' = Append(inflight, [requirements_id |-> requirements_id,
                                                 calls |-> 1])
                /\ UNCHANGED resp
    /\ UNCHANGED <<project_requirements, project_plans, uuid_next, clock, submitted,
                   returned_plans>>
    /\ Untouched

\* variant: a failed call is issued once more before the request gives up
generate_plan_call_raises_retry(i) ==
    /\ i \in DOMAIN inflight
    /\ IF inflight[i].calls < 2
       THEN /\ inflight' = [inflight EXCEPT ![i].calls = @ + 1]
            /\ UNCHANGED resp
       ELSE /\ resp' = GenResponse("generate_plan", inflight[i].requirements_id, 500,
                                   "Failed to generate project plan: 500",
                                   inflight[i].calls, "raise", <<>>)
            /\ inflight' = RemoveAt(inflight, i)
    /\ UNCHANGED <<project_requirements, project_plans, uuid_next, clock, submitted,
                   returned_plans>>
    /\ Untouched

\* the rest of generate_plan when chat.send_message raises: generate_project_plan
\* turns the exception into HTTPException(500), generate_plan into another one
generate_plan_call_raises(i) ==
    /\ i \in DOMAIN inflight
    /\ resp' = GenResponse("generate_plan", inflight[i].requirements_id, 500,
                           "Failed to generate project plan: 500", inflight[i].calls,
                           "raise", <<>>)
    /\ inflight' = RemoveAt(inflight, i)
    /\ UNCHANGED <<project_requirements, project_plans, uuid_next, clock, submitted,
                   returned_plans>>
    /\ Untouched

\* the rest of generate_plan when chat.send_message returns the text `reply`
generate_plan_call_returns(i, reply) ==
    /\ i \in DOMAIN inflight
    /\ LET requirements_id == inflight[i].requirements_id
           result == generate_project_plan(reply)
       IN  IF ~result.raised /\ PlanBuilds(result.plan_data)
           THEN LET project_plan == ProjectPlan(requirements_id, result.plan_data.value,
                                                uuid_next, clock)
                IN  /\ project_plans' = insert_one(project_plans, project_plan)
                    /\ resp' = [Respond("generate_plan", requirements_id, project_plan,
                                        DocEncodable(project_plan))
                                EXCEPT !.calls = inflight[i].calls, !.outcome = "reply",
                                       !.reply = reply]
                    /\ uuid_next' = uuid_next + 1
                    /\ clock' = clock + 1
                    /\ returned_plans' =
                          [p \in (DOMAIN returned_plans) \cup {project_plan["id"]} |->
                              IF p = project_plan["id"] THEN project_plan
                              ELSE returned_plans[p]]
           ELSE /\ resp' = GenResponse("generate_plan", requirements_id, 500,
                                       "Failed to generate project plan: 500",
                                       inflight[i].calls, "reply", reply)
                /\ UNCHANGED <<project_plans, uuid_next, clock, returned_plans>>
    /\ inflight' = RemoveAt(inflight, i)
    /\ UNCHANGED <<project_requirements, submitted>>
    /\ Untouched

Next ==
    \/ root
    \/ \E input \in Inputs : create_project_requirements(input)
    \/ \E id \in AskedIds : get_project_requirements(id)
    \/ \E id \in AskedIds : generate_plan(id)
    \/ \E i \in DOMAIN inflight : generate_plan_call_raises(i)
    \/ \E i \in DOMAIN inflight, reply \in MainReplies : generate_plan_call_returns(i, reply)
    \/ \E id \in AskedIds : get_project_plan(id)
    \/ get_all_project_plans
    \/ get_all_project_requirements

Spec == Init /\ [][Next]_vars

----------------------------------------------------------------------------
(* The text-handling runs: generate_project_plan applied to one reply *)

TextInit ==
    /\ llm_reply \in ReplyParts
    /\ llm_parsed = NotParsed
    /\ loaded = 0
    /\ GEMINI_API_KEY = "key"
    /\ project_requirements = <<>>
    /\ project_plans = <<>>
    /\ uuid_next = 1
    /\ clock = 1
    /\ inflight = <<>>
    /\ resp = NoResponse
    /\ submitted = <<>>
    /\ returned_plans = <<>>

\* lines 200-207 of generate_project_plan on the reply Text(llm_reply)
parse_reply ==
    /\ ~llm_parsed.done
    /\ llm_parsed' = [done |-> TRUE,
                      response_text |-> ResponseText(Text(llm_reply)),
                      plan_data |-> generate_project_plan(Text(llm_reply)).plan_data]
    /\ UNCHANGED <<project_requirements, project_plans, GEMINI_API_KEY, uuid_next, clock,
                   inflight, resp, submitted, returned_plans, loaded, llm_reply>>

TextNext == parse_reply

TextSpec == TextInit /\ [][TextNext]_vars

----------------------------------------------------------------------------
(* Properties *)

StoredIds(collection) == {collection[i]["id"] : i \in DOMAIN collection}

SubmittedFields == ProjectRequirementsCreate.required \cup {"budget_range"}

\* the value a payload submits for a field: an omitted budget_range is None
SubmittedValue(input, f) == IF f \in DOMAIN input THEN input[f] ELSE NoneVal

\* a step that completes a generation request
GenerateCompletes ==
    /\ resp'.op = "generate_plan"
    /\ Len(inflight') < Len(inflight) \/ resp' # resp

\* a step in which the model call of a generation request ends
CallEnds == Len(inflight') < Len(inflight)

\* C1: GET /project-requirements/{id} with an identifier returned by an earlier POST
\* responds 200 with the submitted values of the eight payload fields, that
\* identifier, and a creation timestamp.
C1_PostThenGet ==
    (resp.op = "get_project_requirements" /\ resp.arg \in DOMAIN submitted) =>
        /\ resp.status = 200
        /\ \A f \in SubmittedFields :
              resp.body[f] = SubmittedValue(submitted[resp.arg], f)
        /\ resp.body["id"] = resp.arg
        /\ resp.body["created_at"] >= 1

C1_Witness ==
    /\ resp.op = "get_project_requirements"
    /\ resp.arg \in DOMAIN submitted
    /\ resp.status = 200
    /\ resp.body["title"] = "T2"
    /\ resp.body["budget_range"] = NoneVal
    /\ Len(project_requirements) > 1

\* the object a reply denotes when the reply is a JSON object text, bare or inside
\* one leading and one trailing fence, with whitespace around: its member character
ReplyObject(reply) ==
    LET t == strip(reply)
        inner == IF startswith(t, FenceJson) /\ endswith(t, Fence) /\ Len(t) >= 10
                 THEN SubSeq(t, 8, Len(t) - 3)
                 ELSE IF startswith(t, Fence) /\ endswith(t, Fence) /\ Len(t) >= 6
                 THEN SubSeq(t, 4, Len(t) - 3)
                 ELSE t
        j == strip(inner)
    IN  IF Len(j) = 3 /\ j[1] = "{" /\ j[3] = "}" /\ j[2] \in DOMAIN Members
        THEN j[2] ELSE "none"

\* an object has the required keys, and its items the required fields of their records
MatchesSchema(obj) ==
    /\ RequiredKeys \subseteq DOMAIN obj
    /\ \A i \in DOMAIN obj["objectives"] :
          ProjectObjective.required \subseteq DOMAIN obj["objectives"][i]
    /\ \A i \in DOMAIN obj["wbs_tasks"] :
          WBSTask.required \subseteq DOMAIN obj["wbs_tasks"][i]
    /\ \A i \in DOMAIN obj["resource_estimates"] :
          ResourceEstimate.required \subseteq DOMAIN obj["resource_estimates"][i]
    /\ \A i \in DOMAIN obj["risk_analysis"] :
          RiskItem.required \subseteq DOMAIN obj["risk_analysis"][i]

WellFormedReply(reply) ==
    ReplyObject(reply) # "none" /\ MatchesSchema(Members[ReplyObject(reply)])

ListKeys ==
    {"objectives", "wbs_tasks", "resource_estimates", "risk_analysis", "success_metrics",
     "next_steps"}

\* C2: when the model call of a generation request for a stored record returns a
\* well-formed JSON object matching the schema, the request responds 200 with a plan
\* for that record whose six lists have the lengths of the reply's, under an
\* identifier no stored plan has, and exactly that plan is appended to the plan store.
C2_GenerateSucceeds ==
    [][(CallEnds /\ resp'.outcome = "reply" /\ WellFormedReply(resp'.reply)) =>
          /\ resp'.status = 200
          /\ resp'.arg \in StoredIds(project_requirements)
          /\ resp'.body["project_requirements_id"] = resp'.arg
          /\ \A k \in ListKeys :
                Len(resp'.body[k]) = Len(Members[ReplyObject(resp'.reply)][k])
          /\ resp'.body["id"] \notin StoredIds(project_plans)
          /\ Len(project_plans') = Len(project_plans) + 1
          /\ SubSeq(project_plans', 1, Len(project_plans)) = project_plans
          /\ DelField(project_plans'[Len(project_plans')], "_id") = resp'.body
      ]_vars

C2_Witness ==
    /\ resp.op = "generate_plan"
    /\ resp.status = 200
    /\ startswith(resp.reply, FenceJson)
    /\ Len(resp.body["wbs_tasks"]) = 3
    /\ Len(resp.body["risk_analysis"]) = 0
    /\ resp.body["project_requirements_id"] = resp.arg
    /\ Len(project_plans) = 2

\* C3: a generation request for an identifier no stored requirements record has
\* responds 404, issues no call to the external model (with or without an API key)
\* and leaves the plan store unchanged; no call is ever in flight for such an
\* identifier.
C3_GenerateUnknown ==
    [][/\ \A i \in DOMAIN inflight' :
             inflight'[i].requirements_id \in StoredIds(project_requirements)
       /\ (GenerateCompletes /\ resp'.arg \notin StoredIds(project_requirements)) =>
             /\ resp'.status = 404
             /\ resp'.calls = 0
             /\ inflight' = inflight
             /\ project_plans' = project_plans
      ]_vars

C3_Witness ==
    /\ resp.op = "generate_plan"
    /\ resp.status = 404
    /\ resp.arg \notin StoredIds(project_requirements)
    /\ project_requirements # <<>>
    /\ GEMINI_API_KEY = ""

\* C4: when the reply to a generation request is not valid JSON after whitespace and
\* fence stripping, the request responds 500 and the plan store stays as it was.
C4_InvalidJson ==
    [][(CallEnds /\ resp'.outcome = "reply"
           /\ ~json_loads(ResponseText(resp'.reply)).ok) =>
          /\ resp'.status = 500
          /\ project_plans' = project_plans
      ]_vars

C4_Witness ==
    /\ resp.op = "generate_plan"
    /\ resp.outcome = "reply"
    /\ resp.reply = <<"x", "x", "x">>
    /\ resp.status = 500
    /\ project_plans # <<>>

\* C5: GET /project-plan/p for a plan p returned by a successful generation request
\* responds 200 with the stored plan document, whose plan fields equal those of the
\* plan that was returned.
C5_GetGeneratedPlan ==
    (resp.op = "get_project_plan" /\ resp.arg \in DOMAIN returned_plans) =>
        /\ resp.status = 200
        /\ \A f \in DOMAIN returned_plans[resp.arg] :
              resp.body[f] = returned_plans[resp.arg][f]

\* the reply is a JSON object text inside one leading and one trailing fence
FencedObject(parts) ==
    /\ parts.lead \in {Fence, FenceJson}
    /\ parts.trail = Fence
    /\ json_loads(parts.body).ok
    /\ json_loads(parts.body).kind = "object"

\* C6: a JSON object text wrapped in one leading fence (json-tagged or bare) and one
\* trailing fence, with optional whitespace around, parses to the value the
\* unfenced text parses to.
C6_FencedParsesAsUnfenced ==
    (llm_parsed.done /\ FencedObject(llm_reply)) =>
        /\ llm_parsed.plan_data.ok
        /\ llm_parsed.plan_data = generate_project_plan(llm_reply.body).plan_data

C6_Witness ==
    /\ llm_parsed.done
    /\ FencedObject(llm_reply)
    /\ llm_reply.lead = Fence
    /\ llm_reply.pre # <<>>
    /\ llm_reply.post # <<>>
    /\ llm_reply.gap1 = <<>>
    /\ llm_parsed.plan_data.value = PlanB

\* C7: GET /project-requirements/{id} responds 404 when no stored requirements record
\* has the identifier, GET /project-plan/{id} when no stored plan has it.
C7_GetUnknown ==
    /\ (resp.op = "get_project_requirements"
           /\ resp.arg \notin StoredIds(project_requirements)) => resp.status = 404
    /\ (resp.op = "get_project_plan"
           /\ resp.arg \notin StoredIds(project_plans)) => resp.status = 404

C7_Witness ==
    /\ resp.op = "get_project_plan"
    /\ resp.arg \in StoredIds(project_requirements)
    /\ resp.arg \notin StoredIds(project_plans)
    /\ resp.status = 404
    /\ project_plans # <<>>

\* the items a listing response carries
Items(r) == IF r.status = 200 THEN r.body ELSE <<>>

Declared(model) == model.required \cup DOMAIN model.defaults

\* some item of the list has fields other than the declared ones
FieldSetsDiffer(model, items) ==
    \E i \in DOMAIN items : DOMAIN items[i] # Declared(model)

\* some item of the list lacks a required field
RequiredFieldMissing(model, items) ==
    \E i \in DOMAIN items : ~(model.required \subseteq DOMAIN items[i])

NestedKeys ==
    [objectives |-> ProjectObjective, wbs_tasks |-> WBSTask,
     resource_estimates |-> ResourceEstimate, risk_analysis |-> RiskItem]

\* the parsed reply of a response
Parsed(r) == json_loads(ResponseText(r.reply))

LacksRequiredKey(r) ==
    /\ r.outcome = "reply"
    /\ Parsed(r).ok
    /\ Parsed(r).kind = "object"
    /\ ~(RequiredKeys \subseteq DOMAIN Parsed(r).value)

NestedItemTest(r, Test(_, _)) ==
    /\ r.outcome = "reply"
    /\ Parsed(r).ok
    /\ Parsed(r).kind = "object"
    /\ \E k \in (DOMAIN NestedKeys) \cap (DOMAIN Parsed(r).value) :
          Test(NestedKeys[k], Parsed(r).value[k])

\* C9 as stated: a generation request for a stored record issues exactly one call to
\* the external model, and responds 500 with no plan persisted when the call raises,
\* a required top-level key is missing, or a nested item does not match its expected
\* field set.
C9_AsStated ==
    [][(GenerateCompletes /\ resp'.arg \in StoredIds(project_requirements)) =>
          /\ resp'.calls = 1
          /\ (\/ resp'.outcome = "raise"
              \/ LacksRequiredKey(resp')
              \/ NestedItemTest(resp', FieldSetsDiffer)) =>
                 (resp'.status = 500 /\ project_plans' = project_plans)
      ]_vars

\* C9: a generation request for a stored record issues exactly one call to the
\* external model when the API key is configured, and none (responding 500) when it
\* is not; it responds 500 with no plan persisted when the call raises, a required
\* top-level key is missing, or a nested item lacks a required field of its record.
C9_NoRetryNoRecovery ==
    [][(GenerateCompletes /\ resp'.arg \in StoredIds(project_requirements)) =>
          /\ resp'.calls = IF GEMINI_API_KEY = "" THEN 0 ELSE 1
          /\ GEMINI_API_KEY = "" => (resp'.status = 500 /\ project_plans' = project_plans)
          /\ (\/ resp'.outcome = "raise"
              \/ LacksRequiredKey(resp')
              \/ NestedItemTest(resp', RequiredFieldMissing)) =>
                 (resp'.status = 500 /\ project_plans' = project_plans)
      ]_vars

C9_Witness ==
    /\ resp.op = "generate_plan"
    /\ resp.calls = 1
    /\ resp.status = 500
    /\ NestedItemTest(resp, RequiredFieldMissing)
    /\ project_plans = <<>>

\* the reply without its whitespace and its fence markers: a leading fence is cut
\* when the reply begins with one, a trailing fence when what is left ends with one
FencesRemoved(text) ==
    LET t == strip(text)
        n == IF startswith(t, FenceJson) THEN 7 ELSE IF startswith(t, Fence) THEN 3 ELSE 0
        rest == SubSeq(t, n + 1, Len(t))
    IN  IF n = 0 THEN t
        ELSE IF endswith(rest, Fence) THEN SubSeq(rest, 1, Len(rest) - 3)
        ELSE rest

\* C10: the text handed to the JSON parser is the whitespace-stripped reply minus its
\* fence markers and nothing else; a reply that begins with a fence and does not end
\* with one keeps its last three characters.
C10_OnlyFencesRemoved ==
    llm_parsed.done => llm_parsed.response_text = FencesRemoved(Text(llm_reply))

\* the collection keeps every document, unchanged and in place, and gains at most one
Extends(old, new) ==
    /\ Len(old) <= Len(new)
    /\ Len(new) <= Len(old) + 1
    /\ SubSeq(new, 1, Len(old)) = old

ReadOps ==
    {"root", "get_project_requirements", "get_project_plan", "get_all_project_plans",
     "get_all_project_requirements"}

\* C11: under every interleaving of requests a stored requirements or plan record
\* stays in its store unchanged; the requirements store changes only by the one insert
\* of a successful intake request, the plan store only by the one insert of a
\* successful generation request; a step that completes a read, a listing or a failed
\* request leaves both stores unchanged.
C11_AppendOnly ==
    [][/\ Extends(project_requirements, project_requirements')
       /\ Extends(project_plans, project_plans')
       /\ project_requirements' # project_requirements =>
             /\ resp'.op = "create_project_requirements"
             /\ resp'.status = 200
             /\ DelField(project_requirements'[Len(project_requirements')], "_id")
                   = resp'.body
             /\ project_plans' = project_plans
       /\ project_plans' # project_plans =>
             /\ CallEnds
             /\ resp'.op = "generate_plan"
             /\ resp'.status = 200
             /\ DelField(project_plans'[Len(project_plans')], "_id") = resp'.body
             /\ project_requirements' = project_requirements
       /\ (resp' # resp /\ (resp'.op \in ReadOps \/ resp'.status # 200)) =>
             /\ project_requirements' = project_requirements
             /\ project_plans' = project_plans
      ]_vars

C11_Witness ==
    /\ resp.op = "generate_plan"
    /\ resp.status = 500
    /\ resp.outcome = "raise"
    /\ Len(project_plans) = 1
    /\ project_plans[1]["id"] \in DOMAIN returned_plans
    /\ Len(project_requirements) = PreLoad

====
